---- MODULE Spec2Model ----
(***************************************************************************)
(* Model of the Sunny Beam USB protocol engine                             *)
(* (src/sunnybeamtool/sunnybeamtool.py, class SunnyBeam).                  *)
(*                                                                         *)
(* Bytes are the integers 0..255, a bytearray is a sequence of bytes.      *)
(* The USB transport (usb.core) is the environment: a write returns a      *)
(* count, a read returns an array of bytes whose first two bytes are the   *)
(* transport header.                                                       *)
(***************************************************************************)
EXTENDS Integers, Sequences, FiniteSets, TLC

VARIABLES
    connected,      \* self.__connected
    device_id,      \* self.__device_id: [kind: "unset" | "None" | "bytes", val]
    pc,             \* "idle" | "loop" (inside the while loop of
                    \* __do_combined_read_messages) | "parse" (it has
                    \* returned) | "done" (a method returned)
    op,             \* the public method that runs or has just returned
    min,            \* __do_combined_read_messages: min
    linecnt,        \* __do_combined_read_messages: linecnt
    buf_out,        \* __do_combined_read_messages: buf_out
    combined_ret,   \* what __do_combined_read_messages returned
    result,         \* what the public method handed to its caller
    log,            \* the transport calls of the running method, in order
    reads_done,     \* calls of __read_raw_message made inside the while loop
    rpc,            \* one call of __read_raw_message: "off" | "reading" |
                    \* "returned" | "raised"; of the byte escaping alone:
                    \* "escape" | "unescape" | "done"; of
                    \* __send_raw_message alone: "send" | "written"
    reader,         \* its locals
    attempt,        \* iterations of its for loop begun so far
    max_iterations, \* its parameter
    pending,        \* bytes the device has sent and no read has fetched yet
                    \* (the bytes to escape; the msg to send)
    stream,         \* the bytes the reads of the call have fetched, in order
                    \* (the escaped bytes; the data handed to dev.write)
    nreads,         \* reads of the call that were made one by one
    ret,            \* what the call returned
    fired,          \* the times the idle-artifact branch was taken in the last read
    tasks,          \* where each asyncio task is in its data method
    outstanding     \* commands written whose frame read has not completed

sessionVars ==
    << connected, device_id, pc, op, min, linecnt, buf_out, combined_ret,
       result, log, reads_done >>
frameVars ==
    << rpc, reader, attempt, max_iterations, pending, stream, nreads, ret, fired >>
taskVars == << tasks, outstanding >>
vars == << sessionVars, frameVars, taskVars >>

(***************************************************************************)
(* Byte and sequence helpers (Python slices and integer operators).        *)
(***************************************************************************)

\* a ^ b on non-negative integers
RECURSIVE Xor(_, _)
Xor(a, b) ==
    IF a = 0 THEN b
    ELSE IF b = 0 THEN a
    ELSE (((a % 2) + (b % 2)) % 2) + 2 * Xor(a \div 2, b \div 2)

\* s[i:j] of Python for 0 <= i, 0 <= j (0-based, j exclusive, clipped to len)
Slice(s, i, j) ==
    LET hi == IF j > Len(s) THEN Len(s) ELSE j
    IN  IF i >= hi THEN <<>> ELSE SubSeq(s, i + 1, hi)

\* s[i:-k] of Python for 0 <= i, k > 0
SliceEnd(s, i, k) == Slice(s, i, IF Len(s) - k < 0 THEN 0 ELSE Len(s) - k)

\* s[-k:-m] of Python for k > m > 0 (start clipped to 0)
Tail2(s, k, m) ==
    Slice(s, IF Len(s) - k < 0 THEN 0 ELSE Len(s) - k,
             IF Len(s) - m < 0 THEN 0 ELSE Len(s) - m)

\* b"..." [i] with 0-based index; the caller guards i < Len(s)
At(s, i) == s[i + 1]

\* int.to_bytes(length=2, byteorder='little')
ToBytesLE2(n) == << n % 256, (n \div 256) % 256 >>

\* int.to_bytes(length=4, byteorder='little')
ToBytesLE4(n) ==
    << n % 256, (n \div 256) % 256, (n \div 65536) % 256, (n \div 16777216) % 256 >>

(***************************************************************************)
(* CRC-16/X-25: self.__CRCFUN = crcmod.predefined.mkCrcFun('x-25'),        *)
(* computed with the table and the update step the module itself carries.  *)
(***************************************************************************)
fcstable ==
 <<
    0, 4489, 8978, 12955, 17956, 22445, 25910, 29887,
    35912, 40385, 44890, 48851, 51820, 56293, 59774, 63735,
    4225, 264, 13203, 8730, 22181, 18220, 30135, 25662,
    40137, 36160, 49115, 44626, 56045, 52068, 63999, 59510,
    8450, 12427, 528, 5017, 26406, 30383, 17460, 21949,
    44362, 48323, 36440, 40913, 60270, 64231, 51324, 55797,
    12675, 8202, 4753, 792, 30631, 26158, 21685, 17724,
    48587, 44098, 40665, 36688, 64495, 60006, 55549, 51572,
    16900, 21389, 24854, 28831, 1056, 5545, 10034, 14011,
    52812, 57285, 60766, 64727, 34920, 39393, 43898, 47859,
    21125, 17164, 29079, 24606, 5281, 1320, 14259, 9786,
    57037, 53060, 64991, 60502, 39145, 35168, 48123, 43634,
    25350, 29327, 16404, 20893, 9506, 13483, 1584, 6073,
    61262, 65223, 52316, 56789, 43370, 47331, 35448, 39921,
    29575, 25102, 20629, 16668, 13731, 9258, 5809, 1848,
    65487, 60998, 56541, 52564, 47595, 43106, 39673, 35696,
    33800, 38273, 42778, 46739, 49708, 54181, 57662, 61623,
    2112, 6601, 11090, 15067, 20068, 24557, 28022, 31999,
    38025, 34048, 47003, 42514, 53933, 49956, 61887, 57398,
    6337, 2376, 15315, 10842, 24293, 20332, 32247, 27774,
    42250, 46211, 34328, 38801, 58158, 62119, 49212, 53685,
    10562, 14539, 2640, 7129, 28518, 32495, 19572, 24061,
    46475, 41986, 38553, 34576, 62383, 57894, 53437, 49460,
    14787, 10314, 6865, 2904, 32743, 28270, 23797, 19836,
    50700, 55173, 58654, 62615, 32808, 37281, 41786, 45747,
    19012, 23501, 26966, 30943, 3168, 7657, 12146, 16123,
    54925, 50948, 62879, 58390, 37033, 33056, 46011, 41522,
    23237, 19276, 31191, 26718, 7393, 3432, 16371, 11898,
    59150, 63111, 50204, 54677, 41258, 45219, 33336, 37809,
    27462, 31439, 18516, 23005, 11618, 15595, 3696, 8185,
    63375, 58886, 54429, 50452, 45483, 40994, 37561, 33584,
    31687, 27214, 22741, 18780, 15843, 11370, 7921, 3960
 >>

\* one step: fcs = (fcs >> 8) ^ fcstable[(fcs ^ b) & 0xff]
FcsStep(fcs, b) ==
    Xor(fcs \div 256, fcstable[(Xor(fcs, b) % 256) + 1])

RECURSIVE FcsFold(_, _, _)
\* (fcs is never negative: the test only makes each step's value be computed
\* before the next step is taken)
FcsFold(fcs, s, i) ==
    IF i > Len(s) \/ fcs < 0 THEN fcs ELSE FcsFold(FcsStep(fcs, s[i]), s, i + 1)

\* initial value 0xffff, final value xored with 0xffff
CRCFUN(s) == Xor(FcsFold(65535, s, 1), 65535)

(***************************************************************************)
(* Protocol bytes and the command templates, as the source writes them.    *)
(***************************************************************************)
FLAG == 126         \* 0x7e
ESCAPE == 125       \* 0x7d
ESC_FLAG == 94      \* 0x5e
ESC_ESCAPE == 93    \* 0x5d
XOR_MASK == 32      \* 0x20
IDLE_FIRST == 1     \* 0x01
IDLE_SECOND == 96   \* 0x60
FIRST_LINECNT == 255    \* linecnt = 0xFF
SERIAL_OFFSET == 140000000

\* get_measurements: cmd_get_data
CmdGetData ==
    << 126, 255, 3, 64, 65, 0, 0, 0, 0, 16, 0, 11, 15, 9, 0, 0, 0, 126 >>

\* get_today_measurements: cmd_get_data
CmdToday ==
    << 126, 255, 3, 64, 65, 0, 0, 0, 0, 16, 0, 11, 4, 25, 1, 209, 76, 32, 74,
       255, 255, 255, 127, 0, 0, 126 >>

\* get_last_month_measurements: cmd_get_data
CmdLastMonth ==
    << 126, 255, 3, 64, 65, 0, 0, 212, 245, 16, 0, 11, 4, 125, 49, 2, 127, 37,
       31, 74, 255, 255, 255, 127, 0, 0, 126 >>

\* __do_combined_read_messages: cmd_get_data, "ask next messages"
CmdNext(lc) ==
    << 126, 255, 3, 64, 65, 0, 0, 0, 0, 16, lc, 11, 0, 0, 126 >>

\* __do_syn_online: cmd_syn_online
CmdSynOnline ==
    << 126, 255, 3, 64, 65, 0, 0, 0, 0, 128, 0, 10, 0, 0, 0, 0, 45, 46, 126 >>

\* __search_device_id: basic_msg with basic_msg[12:16] set from the serial number
BasicMsg(serial_number) ==
    LET basic_msg == << 126, 255, 3, 64, 65, 0, 0, 0, 0, 144, 0, 2, 0, 0, 0, 0,
                        0, 0, 126 >>
        serial_number_prepared == serial_number + SERIAL_OFFSET
    IN  Slice(basic_msg, 0, 12) \o ToBytesLE4(serial_number_prepared)
            \o Slice(basic_msg, 16, Len(basic_msg))

(***************************************************************************)
(* __send_raw_message: the frame handed to self.__dev.write.               *)
(***************************************************************************)

\* msg[7:9] = self.__device_id
SetDeviceId(msg, did) ==
    Slice(msg, 0, 7) \o did \o Slice(msg, 9, Len(msg))

\* the loop over msg[1:-3] that builds msg_for_crc
RECURSIVE MsgForCrc(_, _, _, _)
MsgForCrc(s, i, escape_next, acc) ==
    IF i > Len(s) THEN acc
    ELSE IF s[i] = ESCAPE THEN MsgForCrc(s, i + 1, TRUE, acc)
    ELSE MsgForCrc(s, i + 1, FALSE,
                   Append(acc, IF escape_next THEN Xor(s[i], XOR_MASK) ELSE s[i]))

\* a variant that escapes the flag byte only
EscapeFlagOnly(value) ==
    IF value = FLAG THEN << ESCAPE, ESC_FLAG >> ELSE << value >>

\* one checksum byte as appended to newcrc
EscapeCrcByte(value) ==
    IF value = FLAG THEN << ESCAPE, ESC_FLAG >>
    ELSE IF value = ESCAPE THEN << ESCAPE, ESC_ESCAPE >>
    ELSE << value >>

\* newcrc for the two bytes of checksum
NewCrc(checksum) == EscapeCrcByte(checksum[1]) \o EscapeCrcByte(checksum[2])

\* the loop "for value in checksum" over a checksum of any length
RECURSIVE EscapeLoop(_, _)
EscapeLoop(checksum, i) ==
    IF i > Len(checksum) THEN <<>>
    ELSE EscapeCrcByte(checksum[i]) \o EscapeLoop(checksum, i + 1)

\* msg[-3:-1] = newcrc
SpliceCrc(msg, newcrc) ==
    Slice(msg, 0, Len(msg) - 3) \o newcrc \o Slice(msg, Len(msg) - 1, Len(msg))

\* the checksum written into msg: crc over msg_for_crc, little-endian, escaped
WithCrc(msg) ==
    SpliceCrc(msg, NewCrc(ToBytesLE2(CRCFUN(MsgForCrc(SliceEnd(msg, 1, 3), 1, FALSE, <<>>)))))

\* msg as written to endpoint 0x02; did is self.__device_id, a byte sequence here
SendRawMessage(msg0, set_deviceid, did) ==
    WithCrc(IF set_deviceid THEN SetDeviceId(msg0, did) ELSE msg0)

(***************************************************************************)
(* __read_raw_message.  The locals of one call are a record                *)
(*   buf_out, start_found, previous_char_is_escape, end_found, err         *)
(* err is "IndexError" once "del buf_out[-1]" ran on an empty buf_out.     *)
(***************************************************************************)
ReadStart ==
    [ buf_out |-> <<>>, start_found |-> FALSE,
      previous_char_is_escape |-> FALSE, end_found |-> FALSE, err |-> "" ]

\* the body of "if previous_char_is_escape:"
UnescapeByte(myByte) ==
    IF myByte = ESC_FLAG THEN FLAG
    ELSE IF myByte = ESC_ESCAPE THEN ESCAPE
    ELSE Xor(myByte, XOR_MASK)

\* the idle-artifact branch: del buf_out[-1]; continue
DropPrevious(st) ==
    IF Len(st.buf_out) = 0
    THEN [st EXCEPT !.err = "IndexError"]
    ELSE [st EXCEPT !.buf_out = SubSeq(st.buf_out, 1, Len(st.buf_out) - 1)]

\* "if (start_found and (myByte == 0x60) and (buf_in[p - 1] == 0x01))"
IdleArtifact(start_found, myByte, prev) ==
    start_found /\ myByte = IDLE_SECOND /\ prev = IDLE_FIRST

\* one pass of "for p in range(2, len(buf_in))": myByte = buf_in[p], prev = buf_in[p - 1]
ProcessByte(st, myByte, prev) ==
    LET start_found == st.start_found \/ myByte = FLAG
        end_found == st.end_found \/ (myByte = FLAG /\ st.start_found)
    IN  IF IdleArtifact(start_found, myByte, prev)
        THEN DropPrevious(st)
        ELSE IF myByte = ESCAPE
        THEN [st EXCEPT !.previous_char_is_escape = TRUE]
        ELSE [ buf_out |-> Append(st.buf_out,
                                  IF st.previous_char_is_escape
                                  THEN UnescapeByte(myByte) ELSE myByte),
               start_found |-> start_found,
               previous_char_is_escape |-> FALSE,
               end_found |-> end_found,
               err |-> st.err ]

\* the for loop over p, left by "if end_found: break" (or by the exception)
RECURSIVE ProcessPayload(_, _, _)
ProcessPayload(st, buf_in, p) ==
    IF p >= Len(buf_in) \/ st.end_found \/ st.err # "" THEN st
    ELSE ProcessPayload(ProcessByte(st, At(buf_in, p), At(buf_in, p - 1)),
                        buf_in, p + 1)

\* one iteration of "for _ in range(max_iterations)" on the bytes read
ProcessRead(st, buf_in) ==
    IF Len(buf_in) > 2
    THEN ProcessPayload([st EXCEPT !.end_found = FALSE], buf_in, 2)
    ELSE st

\* What "del buf_out[-1]" met each time the idle-artifact branch was taken in
\* one read: p, the size of buf_out, the byte it removed (-1 when there was
\* none) and the byte that the pass for buf_in[p - 1] appended (-1 when
\* buf_in[p - 1] is a header byte)
NoByte == 0 - 1
LastOf(buf) == IF Len(buf) = 0 THEN NoByte ELSE buf[Len(buf)]
Firing(st, p, appended) ==
    [ p |-> p, size |-> Len(st.buf_out), removed |-> LastOf(st.buf_out),
      appended |-> appended ]

\* the byte a pass appended to buf_out
Appended(st, nxt) ==
    IF Len(nxt.buf_out) = Len(st.buf_out) + 1 THEN LastOf(nxt.buf_out) ELSE NoByte

RECURSIVE Firings(_, _, _, _, _)
FiringsNext(st, nxt, buf_in, p, appended, acc) ==
    Firings(nxt, buf_in, p + 1, Appended(st, nxt),
            IF IdleArtifact(st.start_found, At(buf_in, p), At(buf_in, p - 1))
            THEN Append(acc, Firing(st, p, appended)) ELSE acc)

Firings(st, buf_in, p, appended, acc) ==
    IF p >= Len(buf_in) \/ st.end_found \/ st.err # "" THEN acc
    ELSE FiringsNext(st, ProcessByte(st, At(buf_in, p), At(buf_in, p - 1)),
                     buf_in, p, appended, acc)

ReadFirings(st, buf_in) ==
    IF Len(buf_in) > 2
    THEN Firings([st EXCEPT !.end_found = FALSE], buf_in, 2, NoByte, <<>>)
    ELSE <<>>

\* "Check CRC": TRUE when the warning "read bad crc" is logged
BadCrc(buf) ==
    /\ Len(buf) > 2
    /\ ToBytesLE2(CRCFUN(SliceEnd(buf, 1, 3))) # Tail2(buf, 3, 1)

\* a variant that gives a frame up when its CRC is wrong
ReturnUnlessBadCrc(buf, bad_crc) == IF bad_crc THEN <<>> ELSE buf

\* "return buf_out", after the CRC check
ReadReturn(buf, bad_crc) == buf

\* the attempts loop over the reads the transport delivers: reads[i] is the
\* array of attempt i, and every attempt after Len(reads) reads nothing
RECURSIVE ReadLoop(_, _, _, _)
ReadStep(nxt, reads, i, max_it) ==
    IF nxt.end_found \/ nxt.err # ""
    THEN [rs |-> nxt, attempts |-> i]
    ELSE ReadLoop(nxt, reads, i + 1, max_it)

ReadLoop(st, reads, i, max_it) ==
    IF i > max_it THEN [rs |-> st, attempts |-> max_it]
    ELSE IF i > Len(reads) THEN [rs |-> st, attempts |-> max_it]
    ELSE ReadStep(ProcessRead(st, reads[i]), reads, i, max_it)

\* the end of the call: the CRC check and "return buf_out"
ReadChecked(r, bad) ==
    [ buf |-> ReadReturn(r.rs.buf_out, bad),
      assembled |-> r.rs.buf_out,
      attempts |-> r.attempts,
      ended |-> r.rs.end_found,
      bad_crc |-> bad,
      err |-> "" ]

ReadEnd(r) ==
    IF r.rs.err # ""
    THEN [ buf |-> <<>>, assembled |-> r.rs.buf_out, attempts |-> r.attempts,
           ended |-> r.rs.end_found, bad_crc |-> FALSE, err |-> r.rs.err ]
    ELSE ReadChecked(r, BadCrc(r.rs.buf_out))

\* a whole call: what it returns, how many transport reads it made
ReadRawMessage(reads, max_it) == ReadEnd(ReadLoop(ReadStart, reads, 1, max_it))

(***************************************************************************)
(* __parse_measurements.  A measurement is kept as the bytes it is decoded *)
(* from: time is part_buf[0:4] (struct 'i'), val is part_buf[8:] (struct   *)
(* 'f'); struct.unpack raises struct.error unless it is given 4 bytes.     *)
(***************************************************************************)

\* the loop "for i in range(5, len(rawdata), 12)", data in append order
RECURSIVE ParseLoop(_, _, _)
ParseLoop(rawdata, i, data) ==
    IF i >= Len(rawdata) THEN [err |-> "", data |-> data]
    ELSE LET part_buf == Slice(rawdata, i, i + 12)
         IN  IF Len(Slice(part_buf, 8, Len(part_buf))) # 4
             THEN [err |-> "struct.error", data |-> data]
             ELSE ParseLoop(rawdata, i + 12,
                            Append(data, [ time |-> Slice(part_buf, 0, 4),
                                           val |-> Slice(part_buf, 8, 12) ]))

\* list(reversed(data))
Reversed(data) == [ k \in 1..Len(data) |-> data[Len(data) + 1 - k] ]

(***************************************************************************)
(* What a public method hands to its caller: kind is                       *)
(*   "none"  (no call has returned yet, or connect's None)                 *)
(*   "zero"  (return 0)     "tuple" (pac, etoday, etotal; data holds       *)
(*   buf[25:37])            "list"  (recs holds the measurements)          *)
(*   "raise" (an exception left the method; exc names it)                  *)
(***************************************************************************)
NoResult == [kind |-> "none", exc |-> "", data |-> <<>>, recs |-> <<>>]
Zero == [kind |-> "zero", exc |-> "", data |-> <<>>, recs |-> <<>>]
Raise(exc) == [kind |-> "raise", exc |-> exc, data |-> <<>>, recs |-> <<>>]

\* "return list(reversed(data))", or the exception of the loop
ParseEnd(r) ==
    IF r.err # "" THEN Raise(r.err)
    ELSE [kind |-> "list", exc |-> "", data |-> <<>>, recs |-> Reversed(r.data)]

\* __parse_measurements(rawdata) where rawdata is a bytearray
ParseMeasurements(rawdata) ==
    IF Len(rawdata) <= 0 THEN Zero ELSE ParseEnd(ParseLoop(rawdata, 5, <<>>))

\* __parse_measurements(rawdata) where rawdata is the int 0 that
\* __do_combined_read_messages returns on a failed send: len(0) raises
ParseOfZero == Raise("TypeError")

\* the three struct.unpack calls of get_measurements on buf
DecodeMeasurements(buf) ==
    IF Len(Slice(buf, 25, 29)) # 4 \/ Len(Slice(buf, 29, 33)) # 4
         \/ Len(Slice(buf, 33, 37)) # 4
    THEN Raise("struct.error")
    ELSE [kind |-> "tuple", exc |-> "", data |-> Slice(buf, 25, 37), recs |-> <<>>]

(***************************************************************************)
(* The device and the transport: what self.__dev.read may deliver to one   *)
(* call of __read_raw_message.  A delivery is the sequence of arrays the   *)
(* successive reads return; once it is used up every read returns nothing. *)
(***************************************************************************)
TransportHeader == << 1, 96 >>

\* byte stuffing as the device applies it to body and checksum
RECURSIVE DevEscape(_, _)
DevEscape(s, i) ==
    IF i > Len(s) THEN <<>>
    ELSE (IF s[i] = FLAG \/ s[i] = ESCAPE
          THEN << ESCAPE, Xor(s[i], XOR_MASK) >> ELSE << s[i] >>)
         \o DevEscape(s, i + 1)

\* a frame on the wire for an unescaped body; good = FALSE spoils the checksum
DevFrame(body, good) ==
    << FLAG >>
        \o DevEscape(body \o ToBytesLE2(Xor(CRCFUN(body), IF good THEN 0 ELSE 257)), 1)
        \o << FLAG >>

\* a response: source address id at [5:7], line count at [10], payload from [12]
RespBody(id, lc, payload) ==
    << 255, 3, 64, 65 >> \o id \o << 0, 0, 80, lc, 11 >> \o payload

OneRead(frame) == << TransportHeader \o frame >>

ID_A == << 1, 2 >>
ID_B == << 125, 1 >>
LineCounts == { 0, 1, 2, 3, FIRST_LINECNT }
MeasPayload ==
    << 0, 0, 0, 0, 0, 0, 0, 0, 0, 0, 0, 0, 0,
       0, 0, 175, 67, 31, 133, 69, 65, 219, 233, 118, 68 >>

\* nothing arrives
Silent == << >>
\* a start flag and two bytes, then nothing
PartialFrame == OneRead(<< FLAG, 255, 3 >>)
\* two flag bytes in a row
TinyFrame == OneRead(<< FLAG, FLAG >>)
\* a response declaring lc, with one payload byte that tells it from the others
Counted(lc) == OneRead(DevFrame(RespBody(ID_A, lc, << 160 + (lc % 16) >>), TRUE))
\* a response without payload (the later answers of a long exchange)
Bare(lc) == OneRead(DevFrame(RespBody(ID_A, lc, << >>), TRUE))
\* a last response that arrives with the second read
LateLast ==
    << TransportHeader, TransportHeader \o DevFrame(RespBody(ID_A, 0, << 176 >>), TRUE) >>
\* responses whose checksum does not match
BadChecksum == OneRead(DevFrame(RespBody(ID_A, 2, << 178 >>), FALSE))
BadMeasFrame == OneRead(DevFrame(RespBody(ID_A, 0, MeasPayload), FALSE))
\* a response that arrives in two reads
SplitAt(f, k) ==
    << TransportHeader \o Slice(f, 0, k), TransportHeader \o Slice(f, k, Len(f)) >>
SplitFrame == SplitAt(DevFrame(RespBody(ID_A, 1, << 177 >>), TRUE), 6)
\* a response with the three measurements at [25:37]
MeasFrame == OneRead(DevFrame(RespBody(ID_A, 0, MeasPayload), TRUE))
\* a response from a device whose identity holds the escape byte
OtherId == OneRead(DevFrame(RespBody(ID_B, 0, << >>), TRUE))

RegularDeliveries == { Counted(n) : n \in LineCounts }
BareDeliveries == { Bare(0), Bare(1) }
QuietDeliveries == { Silent, PartialFrame, TinyFrame }
Deliveries ==
    RegularDeliveries \cup QuietDeliveries
        \cup { LateLast, BadChecksum, BadMeasFrame, SplitFrame, MeasFrame, OtherId }

\* self.__dev.serial_number
SerialNumbers == { 2000123456 }

(***************************************************************************)
(* The transport calls a method makes, as the log keeps them.              *)
(*   t = "find": core.find, n = 1 when a device was found                  *)
(*   t = "ctrl": dev.ctrl_transfer, n = its return value                   *)
(*   t = "w": dev.write, msg = data, n = its return value, sub = the       *)
(*            set_deviceid argument of __send_raw_message                  *)
(*   t = "r": one call of __read_raw_message, msg = what it returned,      *)
(*            n = max_iterations, k = the reads it made, bad = the CRC     *)
(*            warning, reads = what the transport delivered                *)
(***************************************************************************)
\* the device answers with payload at most MaxPayloadFrames times in one
\* series method; the log is long enough for all the calls up to there
MaxPayloadFrames == 4
MaxLog == 2 * MaxPayloadFrames + 3

Event(t, msg, n, k, bad, sub, reads) ==
    [t |-> t, msg |-> msg, n |-> n, k |-> k, bad |-> bad, sub |-> sub, reads |-> reads]
FindEv(found) == Event("find", <<>>, IF found THEN 1 ELSE 0, 0, FALSE, FALSE, <<>>)
CtrlEv(n) == Event("ctrl", <<>>, n, 0, FALSE, FALSE, <<>>)
WriteEv(msg, n, sub) == Event("w", msg, n, 0, FALSE, sub, <<>>)
ReadEv(r, budget, reads) == Event("r", r.buf, budget, r.attempts, r.bad_crc, FALSE, reads)

\* the log keeps the first MaxLog calls of a method
Logged(old, evs) ==
    LET all == old \o evs
    IN  IF Len(all) <= MaxLog THEN all ELSE SubSeq(all, 1, MaxLog)

\* dev.write returns the number of bytes written, 0 when none were
WriteReturn(msg, wok) == IF wok THEN Len(msg) ELSE 0

\* dev.ctrl_transfer(...) for the SET_FEATURE request
CtrlReturns == { 0, 1 }

SYN_ATTEMPTS == 5       \* __do_syn_online: __read_raw_message(5)
ID_ATTEMPTS == 20       \* __search_device_id: __read_raw_message(20)
DATA_ATTEMPTS == 50     \* get_measurements, __do_combined_read_messages
RETRY_BUDGET == 20      \* __do_combined_read_messages: min = 20

Unset == [kind |-> "unset", val |-> <<>>]
NoneId == [kind |-> "None", val |-> <<>>]
Bytes(b) == [kind |-> "bytes", val |-> b]

(***************************************************************************)
(* __send_raw_message as a call: exc names the exception of                *)
(* "msg[7:9] = self.__device_id", raised before anything is written.       *)
(***************************************************************************)
Written(msg, resu, set_deviceid) ==
    [exc |-> "", evs |-> << WriteEv(msg, resu, set_deviceid) >>, resu |-> resu]

WriteMsg(msg, set_deviceid, wok) == Written(msg, WriteReturn(msg, wok), set_deviceid)

\* (the frames are tabulated once for the commands and identities in use)
Commands ==
    { CmdGetData, CmdToday, CmdLastMonth, CmdSynOnline }
        \cup { CmdNext(lc) : lc \in LineCounts \cup { FIRST_LINECNT } }
        \cup { BasicMsg(sn) : sn \in SerialNumbers }
IdValues == { <<>>, ID_A, ID_B }
SendCalls ==
    [ msg0 \in Commands, set_deviceid \in BOOLEAN, did \in IdValues |->
        SendRawMessage(msg0, set_deviceid, did) ]

Send(msg0, set_deviceid, did, wok) ==
    IF set_deviceid /\ did.kind # "bytes"
    THEN [exc |-> IF did.kind = "None" THEN "TypeError" ELSE "AttributeError",
          evs |-> <<>>, resu |-> 0]
    ELSE WriteMsg(SendCalls[msg0, set_deviceid, did.val], set_deviceid, wok)

\* __read_raw_message(max_iterations) as a call on what the transport delivers
ReadDone(r, budget, delivery) ==
    [exc |-> r.err, evs |-> << ReadEv(r, budget, delivery) >>, buf |-> r.buf]

\* (the calls are tabulated once for the deliveries and budgets in use)
Budgets == { SYN_ATTEMPTS, ID_ATTEMPTS, DATA_ATTEMPTS }
ReadCalls ==
    [ delivery \in Deliveries \cup BareDeliveries, budget \in Budgets |->
        ReadRawMessage(delivery, budget) ]

Read(delivery, budget) == ReadDone(ReadCalls[delivery, budget], budget, delivery)

(***************************************************************************)
(* __do_syn_online: ok is its return value                                 *)
(***************************************************************************)
\* the set_deviceid argument of the keepalive send
SynSetsDeviceId == FALSE

\* "always read dummy data", "return True"
SynRead(s, r) == [exc |-> r.exc, evs |-> s.evs \o r.evs, ok |-> r.exc = ""]

SynSent(s, delivery) ==
    IF s.exc # "" THEN [exc |-> s.exc, evs |-> s.evs, ok |-> FALSE]
    ELSE IF s.resu = 0 THEN [exc |-> "", evs |-> s.evs, ok |-> FALSE]
    ELSE SynRead(s, Read(delivery, SYN_ATTEMPTS))

DoSynOnline(wok, delivery) ==
    SynSent(Send(CmdSynOnline, SynSetsDeviceId, device_id, wok), delivery)

(***************************************************************************)
(* __search_device_id: id is its return value                              *)
(***************************************************************************)
\* "if len(data) < 7: return None / else: return data[5:7]"
IdOf(data) == IF Len(data) < 7 THEN NoneId ELSE Bytes(Slice(data, 5, 7))

SearchRead(s, r) == [exc |-> r.exc, evs |-> s.evs \o r.evs, id |-> IdOf(r.buf)]

SearchSent(s, delivery) ==
    IF s.resu > 0 THEN SearchRead(s, Read(delivery, ID_ATTEMPTS))
    ELSE [exc |-> "", evs |-> s.evs, id |-> NoneId]

SearchDeviceId(serial_number, wok, delivery) ==
    SearchSent(Send(BasicMsg(serial_number), FALSE, device_id, wok), delivery)

(***************************************************************************)
(* connect: the values of self.__connected and self.__device_id after it   *)
(***************************************************************************)
\* "if self.__device_id == None: ... else: self.__connected = True"
ConnectedAfter(id) == IF id.kind = "None" THEN connected ELSE TRUE

ConnectSearched(sd, ctrl) ==
    IF sd.exc # ""
    THEN [connected |-> connected, device_id |-> device_id,
          evs |-> << FindEv(TRUE), CtrlEv(ctrl) >> \o sd.evs, result |-> Raise(sd.exc)]
    ELSE [connected |-> ConnectedAfter(sd.id), device_id |-> sd.id,
          evs |-> << FindEv(TRUE), CtrlEv(ctrl) >> \o sd.evs, result |-> NoResult]

ConnectRun(found, ctrl, serial_number, wok, delivery) ==
    IF ~found
    THEN [connected |-> connected, device_id |-> device_id,
          evs |-> << FindEv(FALSE) >>, result |-> NoResult]
    ELSE IF ctrl # 0
    THEN [connected |-> connected, device_id |-> device_id,
          evs |-> << FindEv(TRUE), CtrlEv(ctrl) >>, result |-> NoResult]
    ELSE ConnectSearched(SearchDeviceId(serial_number, wok, delivery), ctrl)

(***************************************************************************)
(* get_measurements                                                        *)
(***************************************************************************)
\* a variant without the guard, to show what the guard is needed for
GuardLeftOut == FALSE

\* "if not self.__connected": the guard of the three data methods
NotConnected == ~connected

\* "buf = await self.__read_raw_message(50)" and what follows it
MeasRead(syn, s, r) ==
    IF r.exc # "" THEN [evs |-> syn.evs \o s.evs \o r.evs, result |-> Raise(r.exc)]
    ELSE IF Len(r.buf) <= 0 THEN [evs |-> syn.evs \o s.evs \o r.evs, result |-> Zero]
    ELSE [evs |-> syn.evs \o s.evs \o r.evs, result |-> DecodeMeasurements(r.buf)]

\* "if resu > 0:", and "return (pac, etoday, etotal)" with none of them
\* bound when resu is 0
MeasSent(syn, s, delivery2) ==
    IF s.exc # "" THEN [evs |-> syn.evs, result |-> Raise(s.exc)]
    ELSE IF s.resu > 0 THEN MeasRead(syn, s, Read(delivery2, DATA_ATTEMPTS))
    ELSE [evs |-> syn.evs \o s.evs, result |-> Raise("UnboundLocalError")]

MeasSyn(syn, wok2, delivery2) ==
    IF syn.exc # "" THEN [evs |-> syn.evs, result |-> Raise(syn.exc)]
    ELSE IF ~syn.ok THEN [evs |-> syn.evs, result |-> Zero]
    ELSE MeasSent(syn, Send(CmdGetData, TRUE, device_id, wok2), delivery2)

GetMeasurementsRun(wok1, delivery1, wok2, delivery2) ==
    IF NotConnected THEN [evs |-> <<>>, result |-> Zero]
    ELSE MeasSyn(DoSynOnline(wok1, delivery1), wok2, delivery2)

(***************************************************************************)
(* get_today_measurements, get_last_month_measurements and                 *)
(* __do_combined_read_messages                                             *)
(***************************************************************************)
SeriesOps == { "get_today_measurements", "get_last_month_measurements" }
DataOps == SeriesOps \cup { "get_measurements" }

SeriesCmd(o) == IF o = "get_today_measurements" THEN CmdToday ELSE CmdLastMonth

ReturnedBytes(b) == [kind |-> "bytes", exc |-> "", data |-> b, recs |-> <<>>]

\* __do_combined_read_messages up to "linecnt = 0xFF": next is "loop" when
\* the while loop is entered
CombinedSent(syn, s) ==
    IF s.exc # "" THEN [next |-> "raise", exc |-> s.exc, evs |-> syn.evs]
    ELSE IF s.resu = 0 THEN [next |-> "zero", exc |-> "", evs |-> syn.evs \o s.evs]
    ELSE [next |-> "loop", exc |-> "", evs |-> syn.evs \o s.evs]

CombinedSyn(syn, o, wok2) ==
    IF syn.exc # "" THEN [next |-> "raise", exc |-> syn.exc, evs |-> syn.evs]
    ELSE IF ~syn.ok THEN [next |-> "zero", exc |-> "", evs |-> syn.evs]
    ELSE CombinedSent(syn, Send(SeriesCmd(o), TRUE, device_id, wok2))

CombinedStart(o, wok1, delivery1, wok2) ==
    CombinedSyn(DoSynOnline(wok1, delivery1), o, wok2)

\* the test on linecnt that sends the "ask next messages" request
AsksNext(lc) == lc # FIRST_LINECNT

\* a variant of the loop test that a count of 0 does not end
GoesOnPastZero(lc) == TRUE

\* the test of the while loop
LoopGoesOn(lc) == lc # 0

\* a variant of the budget test that never ends the loop
BudgetNeverSpent(m) == FALSE

\* "if (min == 0): break"
BudgetSpent(m) == m = 0

\* "buf_out.extend(tmpbuf[12:-3])" under "if len(tmpbuf) > 12"
Extended(bo, tmpbuf) ==
    IF Len(tmpbuf) > 12 THEN bo \o SliceEnd(tmpbuf, 12, 3) ELSE bo

\* one pass of the while loop, from "min -= 1": next is
\*   "loop"  the loop goes on          "bytes" return buf_out
\*   "zero"  return 0                  "raise" an exception leaves the method
LoopOutcome(next, exc, evs, lc, bo, read) ==
    [next |-> next, exc |-> exc, evs |-> evs, min |-> min - 1, linecnt |-> lc,
     buf_out |-> bo, read |-> read]

\* from "tmpbuf = await self.__read_raw_message(50)" to "linecnt = tmpbuf[10]"
LoopRead(s, r) ==
    IF r.exc # "" THEN LoopOutcome("raise", r.exc, s.evs \o r.evs, linecnt, buf_out, TRUE)
    ELSE IF Len(r.buf) <= 0
    THEN LoopOutcome("bytes", "", s.evs \o r.evs, linecnt, buf_out, TRUE)
    ELSE IF Len(r.buf) <= 10
    THEN LoopOutcome("raise", "IndexError", s.evs \o r.evs, linecnt,
                     Extended(buf_out, r.buf), TRUE)
    ELSE LoopOutcome(IF LoopGoesOn(At(r.buf, 10)) THEN "loop" ELSE "bytes", "",
                     s.evs \o r.evs, At(r.buf, 10), Extended(buf_out, r.buf), TRUE)

\* "if resu == 0: return 0"
LoopSent(s, delivery) ==
    IF s.exc # "" THEN LoopOutcome("raise", s.exc, <<>>, linecnt, buf_out, FALSE)
    ELSE IF s.resu = 0 THEN LoopOutcome("zero", "", s.evs, linecnt, buf_out, FALSE)
    ELSE LoopRead(s, Read(delivery, DATA_ATTEMPTS))

NothingSent == [exc |-> "", evs |-> <<>>, resu |-> 1]

LoopBody(wok, delivery) ==
    IF BudgetSpent(min - 1) THEN LoopOutcome("bytes", "", <<>>, linecnt, buf_out, FALSE)
    ELSE LoopSent(IF AsksNext(linecnt)
                  THEN Send(CmdNext(linecnt), TRUE, device_id, wok)
                  ELSE NothingSent,
                  delivery)

(***************************************************************************)
(* The session: one caller, one method at a time.                          *)
(***************************************************************************)
\* the asyncio tasks that call the data methods of one session
MaxTasks == 2
Tasks == 1..MaxTasks
IdleTask == [at |-> "idle", op |-> "", what |-> "none", min |-> 0, linecnt |-> 0]
TasksOff ==
    /\ tasks = [i \in Tasks |-> IdleTask]
    /\ outstanding = 0

FrameOff ==
    /\ rpc = "off"
    /\ reader = ReadStart
    /\ attempt = 0
    /\ max_iterations = 0
    /\ pending = <<>>
    /\ stream = <<>>
    /\ nreads = 0
    /\ ret = <<>>
    /\ fired = <<>>

Init ==
    /\ connected = FALSE
    /\ device_id = Unset
    /\ pc = "idle"
    /\ op = ""
    /\ min = 0
    /\ linecnt = 0
    /\ buf_out = <<>>
    /\ combined_ret = NoResult
    /\ result = NoResult
    /\ log = <<>>
    /\ reads_done = 0
    /\ FrameOff
    /\ TasksOff

ConnectEnds(c) ==
    /\ connected' = c.connected
    /\ device_id' = c.device_id
    /\ log' = Logged(<<>>, c.evs)
    /\ result' = c.result

\* await s_beam.connect()
Connect ==
    /\ pc = "idle"
    /\ \E found \in BOOLEAN, ctrl \in CtrlReturns, serial_number \in SerialNumbers,
          wok \in BOOLEAN, delivery \in Deliveries :
          ConnectEnds(ConnectRun(found, ctrl, serial_number, wok, delivery))
    /\ pc' = "done"
    /\ op' = "connect"
    /\ UNCHANGED << min, linecnt, buf_out, combined_ret, reads_done >>
    /\ UNCHANGED frameVars
    /\ UNCHANGED taskVars

MeasEnds(g) ==
    /\ log' = Logged(<<>>, g.evs)
    /\ result' = g.result

\* await s_beam.get_measurements()
GetMeasurements ==
    /\ pc = "idle"
    /\ \E wok1 \in BOOLEAN, delivery1 \in Deliveries,
          wok2 \in BOOLEAN, delivery2 \in Deliveries :
          MeasEnds(GetMeasurementsRun(wok1, delivery1, wok2, delivery2))
    /\ pc' = "done"
    /\ op' = "get_measurements"
    /\ UNCHANGED << connected, device_id, min, linecnt, buf_out, combined_ret,
                    reads_done >>
    /\ UNCHANGED frameVars
    /\ UNCHANGED taskVars

\* how a series method ends once __do_combined_read_messages has returned
\* (how = "zero" or "bytes") or raised; min, linecnt and buf_out keep the
\* values the locals had when the call was left
SeriesEnds(how, exc, m, lc, bo, evs) ==
    /\ pc' = "done"
    /\ combined_ret' = IF how = "raise" THEN Raise(exc)
                       ELSE IF how = "zero" THEN Zero ELSE ReturnedBytes(bo)
    /\ result' = IF how = "raise" THEN Raise(exc)
                 ELSE IF how = "zero" THEN ParseOfZero ELSE ParseMeasurements(bo)
    /\ log' = Logged(log, evs)
    /\ min' = m
    /\ linecnt' = lc
    /\ buf_out' = bo

SeriesStarts(c) ==
    IF c.next = "loop"
    THEN /\ pc' = "loop"
         /\ min' = RETRY_BUDGET
         /\ linecnt' = FIRST_LINECNT
         /\ buf_out' = <<>>
         /\ log' = Logged(<<>>, c.evs)
         /\ UNCHANGED << result, combined_ret >>
    ELSE SeriesEnds(c.next, c.exc, min, linecnt, <<>>, c.evs)

\* await s_beam.get_today_measurements() / get_last_month_measurements(),
\* up to the while loop of __do_combined_read_messages
StartSeries ==
    /\ pc = "idle"
    /\ \E o \in SeriesOps, wok1 \in BOOLEAN, delivery1 \in Deliveries, wok2 \in BOOLEAN :
          /\ op' = o
          /\ IF NotConnected
             THEN /\ pc' = "done"
                  /\ result' = Zero
                  /\ UNCHANGED << log, combined_ret, min, linecnt, buf_out >>
             ELSE SeriesStarts(CombinedStart(o, wok1, delivery1, wok2))
    /\ UNCHANGED << connected, device_id, reads_done >>
    /\ UNCHANGED frameVars
    /\ UNCHANGED taskVars

LoopMoves(b) ==
    /\ reads_done' = IF b.read THEN reads_done + 1 ELSE reads_done
    /\ IF b.next = "loop"
       THEN /\ min' = b.min
            /\ linecnt' = b.linecnt
            /\ buf_out' = b.buf_out
            /\ log' = Logged(log, b.evs)
            /\ UNCHANGED << pc, result, combined_ret >>
       ELSE SeriesEnds(b.next, b.exc, b.min, b.linecnt, b.buf_out, b.evs)

\* one pass of the while loop; the device answers with one of deliveries
LoopIter(deliveries) ==
    /\ pc = "loop"
    /\ \E wok \in BOOLEAN, delivery \in deliveries : LoopMoves(LoopBody(wok, delivery))
    /\ UNCHANGED << connected, device_id, op >>
    /\ UNCHANGED frameVars
    /\ UNCHANGED taskVars

\* the caller takes the result; the next method may be called
Return ==
    /\ pc = "done"
    /\ pc' = "idle"
    /\ op' = ""
    /\ result' = NoResult
    /\ combined_ret' = NoResult
    /\ log' = <<>>
    /\ reads_done' = 0
    /\ min' = 0
    /\ linecnt' = 0
    /\ buf_out' = <<>>
    /\ UNCHANGED << connected, device_id >>
    /\ UNCHANGED frameVars
    /\ UNCHANGED taskVars

\* In Spec the device answers at most MaxOpFrames requests of one series
\* method inside the loop and is silent afterwards.
MaxOpFrames == 2
SessionDeliveries == IF reads_done < MaxOpFrames THEN Deliveries ELSE { Silent }

Next ==
    \/ Connect
    \/ GetMeasurements
    \/ StartSeries
    \/ LoopIter(SessionDeliveries)
    \/ Return

Spec == Init /\ [][Next]_vars

(***************************************************************************)
(* __do_combined_read_messages alone, from the entry of its while loop:    *)
(* the keepalive was written, its answer was read (nothing came) and the   *)
(* first message was written.  The device answers every request; its       *)
(* first MaxPayloadFrames answers carry payload.                           *)
(***************************************************************************)
CombinedDeliveries ==
    IF reads_done < MaxPayloadFrames
    THEN RegularDeliveries \cup QuietDeliveries \cup { SplitFrame }
    ELSE BareDeliveries \cup { Silent }

InitCombined ==
    /\ connected = TRUE
    /\ device_id \in { Bytes(ID_A), Bytes(ID_B) }
    /\ pc = "loop"
    /\ op \in SeriesOps
    /\ min = RETRY_BUDGET
    /\ linecnt = FIRST_LINECNT
    /\ buf_out = <<>>
    /\ combined_ret = NoResult
    /\ result = NoResult
    /\ log = CombinedStart(op, TRUE, Silent, TRUE).evs
    /\ reads_done = 0
    /\ FrameOff
    /\ TasksOff

NextCombined == LoopIter(CombinedDeliveries)

SpecCombined == InitCombined /\ [][NextCombined]_vars

(***************************************************************************)
(* One call of __read_raw_message, read by read.  The device puts bytes    *)
(* on the wire one at a time; a read fetches the bytes that wait, behind   *)
(* the two header bytes of the transport.                                  *)
(***************************************************************************)
MaxStream == 5      \* bytes the device sends during the call
MaxReads == 3       \* reads of the call that are looked at one by one

Alphabet == { FLAG, ESCAPE, IDLE_FIRST, IDLE_SECOND, ESC_FLAG }
Headers == { TransportHeader, << 96, 1 >> }

InitFrame ==
    /\ connected = FALSE
    /\ device_id = Unset
    /\ pc = "idle"
    /\ op = ""
    /\ min = 0
    /\ linecnt = 0
    /\ buf_out = <<>>
    /\ combined_ret = NoResult
    /\ result = NoResult
    /\ log = <<>>
    /\ reads_done = 0
    /\ rpc = "reading"
    /\ reader = ReadStart
    /\ attempt = 0
    /\ max_iterations \in Budgets
    /\ pending = <<>>
    /\ stream = <<>>
    /\ nreads = 0
    /\ ret = <<>>
    /\ fired = <<>>
    /\ TasksOff

\* the for loop has not been left
Reading ==
    /\ rpc = "reading"
    /\ attempt < max_iterations
    /\ ~reader.end_found
    /\ reader.err = ""

\* the device sends one more byte
DeviceSends ==
    /\ Reading
    /\ nreads < MaxReads
    /\ Len(stream) + Len(pending) < MaxStream
    /\ \E b \in Alphabet : pending' = Append(pending, b)
    /\ UNCHANGED << rpc, reader, attempt, max_iterations, stream, nreads, ret, fired >>
    /\ UNCHANGED sessionVars
    /\ UNCHANGED taskVars

\* one iteration of "for _ in range(max_iterations)": buf_in is the header
\* and the bytes that wait
ReadAttempt ==
    /\ Reading
    /\ nreads < MaxReads
    /\ \E header \in Headers :
        /\ reader' = ProcessRead(reader, header \o pending)
        /\ fired' = ReadFirings(reader, header \o pending)
    /\ attempt' = attempt + 1
    /\ nreads' = nreads + 1
    /\ stream' = stream \o pending
    /\ pending' = <<>>
    /\ UNCHANGED << rpc, max_iterations, ret >>
    /\ UNCHANGED sessionVars
    /\ UNCHANGED taskVars

\* nothing more arrives: every iteration that is left reads no payload
ReadIdle ==
    /\ Reading
    /\ pending = <<>>
    /\ attempt' = max_iterations
    /\ UNCHANGED << rpc, reader, max_iterations, pending, stream, nreads, ret >>
    /\ UNCHANGED fired
    /\ UNCHANGED sessionVars
    /\ UNCHANGED taskVars

\* after the loop: the CRC check and "return buf_out", or the exception
ReadFinish ==
    /\ rpc = "reading"
    /\ ~Reading
    /\ rpc' = IF reader.err = "" THEN "returned" ELSE "raised"
    /\ ret' = IF reader.err = ""
              THEN ReadReturn(reader.buf_out, BadCrc(reader.buf_out)) ELSE <<>>
    /\ UNCHANGED << reader, attempt, max_iterations, pending, stream, nreads, fired >>
    /\ UNCHANGED sessionVars
    /\ UNCHANGED taskVars

NextFrame ==
    \/ DeviceSends
    \/ ReadAttempt
    \/ ReadIdle
    \/ ReadFinish

SpecFrame == InitFrame /\ [][NextFrame]_vars

(***************************************************************************)
(* What the log of a method shows.                                         *)
(***************************************************************************)
IsWrite(e) == e.t = "w"
IsRead(e) == e.t = "r"
LastEv == log[Len(log)]

\* a frame as its receiver sees it: the byte after 0x7d is taken unescaped
RECURSIVE Unescaped(_, _, _)
Unescaped(s, i, escaped) ==
    IF i > Len(s) THEN <<>>
    ELSE IF ~escaped /\ s[i] = ESCAPE THEN Unescaped(s, i + 1, TRUE)
    ELSE << IF escaped THEN UnescapeByte(s[i]) ELSE s[i] >> \o Unescaped(s, i + 1, FALSE)

\* the CRC over [1, len-3) equals, little-endian, the two bytes before the
\* final flag
ChecksumValid(u) ==
    /\ Len(u) >= 4
    /\ ToBytesLE2(CRCFUN(SliceEnd(u, 1, 3))) = Tail2(u, 3, 1)

\* the data command of a method, as the template has it
DataCmd(o) == IF o = "get_measurements" THEN CmdGetData ELSE SeriesCmd(o)

\* msg is the frame of template but for the identity and the CRC
SameCommand(msg, template) ==
    /\ Slice(msg, 0, 7) = Slice(template, 0, 7)
    /\ Slice(msg, 9, Len(template) - 3) = SliceEnd(template, 9, 3)

\* the payloads [12:-3] of the frames the log has from its i-th call on
RECURSIVE Payloads(_, _)
Payloads(lg, i) ==
    IF i > Len(lg) THEN <<>>
    ELSE (IF IsRead(lg[i]) /\ Len(lg[i].msg) > 12
          THEN SliceEnd(lg[i].msg, 12, 3) ELSE <<>>) \o Payloads(lg, i + 1)

\* C1: while the session is not connected, each of the three data methods
\* returns 0 and makes no transport write and no transport read.
C1_NotConnectedFailsFast ==
    (pc = "done" /\ op \in DataOps /\ ~connected) => (result = Zero /\ log = <<>>)

\* a data method has returned on a session whose discovery had failed
C1_Witness ==
    /\ pc = "done"
    /\ op \in SeriesOps
    /\ ~connected
    /\ device_id = NoneId
    /\ result = Zero

\* the handshake of the connect() that has just returned went through: the
\* control request returned 0, the discovery write a count above 0 and the
\* discovery read (20 attempts) a frame of 7 bytes or more
HandshakeOk ==
    /\ Len(log) = 4
    /\ log[2].t = "ctrl" /\ log[2].n = 0
    /\ IsWrite(log[3]) /\ log[3].n > 0
    /\ IsRead(log[4]) /\ log[4].n = ID_ATTEMPTS /\ Len(log[4].msg) >= 7

\* C2: after every call of connect(), also one on a session an earlier
\* connect() made Ready, the connected flag is set if and only if the
\* handshake of that call went through, and then the identity is [5:7] of
\* the discovery frame.
C2_ReadyIffHandshake ==
    (pc = "done" /\ op = "connect") =>
        /\ connected <=> HandshakeOk
        /\ HandshakeOk => device_id = Bytes(Slice(log[4].msg, 5, 7))

\* C3: in every data method on a connected session the keepalive is written
\* without the identity ([7:9] stay 0, 0), then one frame is read with 5
\* attempts, then the data command is written, whatever that read returned.
C3_KeepaliveThenCommand ==
    (pc \in { "done", "loop" } /\ op \in DataOps /\ connected) =>
        /\ Len(log) >= 1
        /\ IsWrite(log[1]) /\ ~log[1].sub
        /\ SameCommand(log[1].msg, CmdSynOnline)
        /\ Slice(log[1].msg, 7, 9) = << 0, 0 >>
        /\ log[1].n > 0 =>
            /\ Len(log) >= 3
            /\ IsRead(log[2]) /\ log[2].n = SYN_ATTEMPTS /\ log[2].k <= SYN_ATTEMPTS
            /\ IsWrite(log[3]) /\ log[3].sub
            /\ SameCommand(log[3].msg, DataCmd(op))

\* C4: in the two series methods on a connected session, when a send
\* returns 0 the caller receives 0.
C4_SeriesSentinel ==
    (/\ pc = "done"
     /\ op \in SeriesOps
     /\ connected
     /\ \E i \in 1..Len(log) : IsWrite(log[i]) /\ log[i].n = 0) => result = Zero

\* the keepalive of the get_measurements that has returned was written
SynOnlineOk == Len(log) >= 2 /\ IsWrite(log[1]) /\ log[1].n > 0 /\ IsRead(log[2])
LiveWriteFailed == Len(log) = 3 /\ IsWrite(log[3]) /\ log[3].n = 0
LiveWriteOk == Len(log) = 4 /\ IsWrite(log[3]) /\ log[3].n > 0 /\ IsRead(log[4])

\* C5: in get_measurements on a connected session after the keepalive went
\* through, a failed write of the live-data command or an empty frame gives
\* 0, and a tuple is returned only after a write that succeeded and a frame
\* that is not empty.
C5_MeasurementsSentinel ==
    (pc = "done" /\ op = "get_measurements" /\ connected /\ SynOnlineOk) =>
        /\ LiveWriteFailed => result = Zero
        /\ (LiveWriteOk /\ log[4].msg = <<>>) => result = Zero
        /\ result.kind = "tuple" => (LiveWriteOk /\ log[4].msg # <<>>)

\* C9: every frame written with the identity put in shows, once unescaped,
\* the identity at [7:9], and its checksum validates.
C9_IdentityShownCrcValid ==
    \A i \in 1..Len(log) :
        (IsWrite(log[i]) /\ log[i].sub) =>
            /\ Slice(Unescaped(log[i].msg, 1, FALSE), 7, 9) = device_id.val
            /\ ChecksumValid(Unescaped(log[i].msg, 1, FALSE))

BadCrcDiscovered == pc = "done" /\ op = "connect" /\ HandshakeOk /\ log[4].bad /\ connected
BadCrcDecoded ==
    pc = "done" /\ op = "get_measurements" /\ LiveWriteOk /\ log[4].bad
        /\ result.kind = "tuple"

(***************************************************************************)
(* The while loop of __do_combined_read_messages: the log has the          *)
(* keepalive, its read and the first message at 1..3, the loop from 4 on.  *)
(***************************************************************************)
RECURSIVE Pick(_, _, _)
Pick(lg, i, t) ==
    IF i > Len(lg) THEN <<>>
    ELSE (IF lg[i].t = t THEN << lg[i] >> ELSE <<>>) \o Pick(lg, i + 1, t)

LoopReads == Pick(log, 4, "r")
LoopWrites == Pick(log, 4, "w")
Declared(e) == At(e.msg, 10)

\* the device answered with frames longer than 12 bytes that declare
\* 3, 2, 1, 0 and every write of the loop succeeded
CountsDown ==
    /\ Len(LoopReads) >= 4
    /\ \A j \in 1..4 : Len(LoopReads[j].msg) > 12 /\ Declared(LoopReads[j]) = 4 - j
    /\ \A j \in 1..Len(LoopWrites) : LoopWrites[j].n > 0

\* C6: with frames that declare 3, 2, 1, 0 the loop makes exactly 4 frame
\* reads and 3 continuation writes, which carry 3, 2, 1 at index 10, and
\* returns the [12:-3] of the 4 frames in arrival order; in general the
\* loop is left after the first frame that declares 0.
C6_CountsDownToZero ==
    /\ CountsDown =>
          /\ pc = "done"
          /\ reads_done = 4
          /\ Len(LoopReads) = 4
          /\ Len(LoopWrites) = 3
          /\ \A j \in 1..3 :
                /\ IsRead(log[2 + 2 * j]) /\ IsWrite(log[3 + 2 * j])
                /\ LoopWrites[j].sub
                /\ SameCommand(LoopWrites[j].msg, CmdNext(4 - j))
                /\ At(LoopWrites[j].msg, 10) = 4 - j
          /\ IsRead(log[10])
          /\ combined_ret =
                ReturnedBytes(SliceEnd(LoopReads[1].msg, 12, 3)
                                \o SliceEnd(LoopReads[2].msg, 12, 3)
                                \o SliceEnd(LoopReads[3].msg, 12, 3)
                                \o SliceEnd(LoopReads[4].msg, 12, 3))
    /\ pc = "loop" =>
          /\ linecnt # 0
          /\ \A j \in 1..Len(LoopReads) :
                Len(LoopReads[j].msg) > 10 /\ Declared(LoopReads[j]) # 0
    /\ (pc = "done" /\ reads_done >= 1 /\ IsRead(LastEv) /\ Len(LastEv.msg) > 10
            /\ Declared(LastEv) = 0) =>
          combined_ret = ReturnedBytes(Payloads(log, 4))

\* the four frames have come and the method has returned their payloads
C6_Witness ==
    /\ CountsDown
    /\ pc = "done"
    /\ reads_done = 4
    /\ combined_ret = ReturnedBytes(<< 163, 162, 161, 160 >>)

\* the flag bytes of one read, from 0-based position p on
RECURSIVE FlagsIn(_, _)
FlagsIn(buf_in, p) ==
    IF p >= Len(buf_in) THEN 0
    ELSE (IF At(buf_in, p) = FLAG THEN 1 ELSE 0) + FlagsIn(buf_in, p + 1)

\* the first attempt in which the second flag byte arrives, max_it when
\* there is none
RECURSIVE StopAttempt(_, _, _, _)
StopAttempt(reads, i, seen, max_it) ==
    IF i > max_it \/ i > Len(reads) THEN max_it
    ELSE IF seen + FlagsIn(reads[i], 2) >= 2 THEN i
    ELSE StopAttempt(reads, i + 1, seen + FlagsIn(reads[i], 2), max_it)

\* the budget of 20 is spent: the loop was left by "if (min == 0): break"
BudgetExhausted == pc = "done" /\ min = 0

\* C7: whatever the device and the transport do, the loop makes at most 19
\* frame reads, one for each unit of its budget of 20, and returns the
\* bytes it has accumulated when the budget is spent; every call of
\* __read_raw_message reads the transport at most max_iterations times and
\* stops at the first attempt in which the end flag arrives.
C7_BoundedReads ==
    /\ reads_done <= RETRY_BUDGET - 1
    /\ pc = "loop" => (min >= 1 /\ reads_done = RETRY_BUDGET - min)
    /\ BudgetExhausted =>
          /\ reads_done = RETRY_BUDGET - 1
          /\ combined_ret = ReturnedBytes(buf_out)
          /\ buf_out = Payloads(log, 4)
    /\ (log # <<>> /\ IsRead(LastEv)) =>
          /\ LastEv.k <= LastEv.n
          /\ LastEv.k = StopAttempt(LastEv.reads, 1, 0, LastEv.n)

\* the budget was spent on a device that never declared 0, among its
\* answers a frame that came in two reads
C7_Witness ==
    /\ BudgetExhausted
    /\ reads_done = RETRY_BUDGET - 1
    /\ combined_ret.kind = "bytes"
    /\ Len(combined_ret.data) = MaxPayloadFrames
    /\ \E i \in 1..Len(log) : IsRead(log[i]) /\ log[i].k = 2

(***************************************************************************)
(* One call of __read_raw_message against the bytes that it fetched.       *)
(***************************************************************************)
\* the 1-based place of the first flag byte of s after place i, 0 if none
RECURSIVE NextFlag(_, _)
NextFlag(s, i) ==
    IF i >= Len(s) THEN 0
    ELSE IF s[i + 1] = FLAG THEN i + 1 ELSE NextFlag(s, i + 1)

\* the places j of s, i <= j < k, where 0x01 0x60 stands
ArtifactsIn(s, i, k) ==
    { j \in i..(k - 1) : s[j] = IDLE_FIRST /\ s[j + 1] = IDLE_SECOND }

\* the stream starts with a flag, goes on with payload bytes that hold no
\* escape byte and the artifact 0x01 0x60 once, and has its end flag at k
ArtifactFrame(s, k) ==
    /\ Len(s) >= 4
    /\ s[1] = FLAG
    /\ k = NextFlag(s, 1)
    /\ k >= 4
    /\ \A j \in 2..(k - 1) : s[j] # ESCAPE
    /\ Cardinality(ArtifactsIn(s, 2, k - 1)) = 1

\* s[1..k] without the two bytes at j and j + 1
WithoutPair(s, k, j) == SubSeq(s, 1, j - 1) \o SubSeq(s, j + 2, k)

\* C8: of a stream that holds a start flag, payload with one idle artifact
\* 0x01 0x60 and an end flag, __read_raw_message returns the start flag,
\* the payload without the two bytes of the artifact and the end flag, and
\* nothing that follows the end flag.
C8_ArtifactRemoved ==
    \A k \in 1..Len(stream) :
        (rpc = "returned" /\ ArtifactFrame(stream, k)) =>
            \A j \in ArtifactsIn(stream, 2, k - 1) : ret = WithoutPair(stream, k, j)

\* of the calls that fetched the whole stream with one read the same holds
ArtifactRemovedInOneRead == nreads = 1 => C8_ArtifactRemoved

\* the budget of the call is spent and no end flag has been seen
TimedOut == rpc = "returned" /\ attempt = max_iterations /\ ~reader.end_found

\* C11: when __read_raw_message spends its attempts without seeing an end
\* flag, it returns the empty bytearray.
C11_TimeoutIsEmpty == TimedOut => ret = <<>>

(***************************************************************************)
(* __parse_measurements alone, on what __do_combined_read_messages         *)
(* returned: every length up to MaxRaw, the bytes told apart by their      *)
(* place.                                                                  *)
(***************************************************************************)
MaxRaw == 42

\* a bytearray of n bytes, byte i (1-based) being (v * i) % 256
RawOf(n, v) == [ i \in 1..n |-> (v * i) % 256 ]
RawData == { RawOf(n, v) : n \in 1..MaxRaw, v \in { 1, 7, 13 } }

InitParse ==
    /\ connected = TRUE
    /\ device_id = Bytes(ID_A)
    /\ pc = "parse"
    /\ op \in SeriesOps
    /\ min = 0
    /\ linecnt = 0
    /\ buf_out = <<>>
    /\ \E rawdata \in RawData : combined_ret = ReturnedBytes(rawdata)
    /\ result = NoResult
    /\ log = <<>>
    /\ reads_done = 0
    /\ FrameOff
    /\ TasksOff

\* "return self.__parse_measurements(rawdata=data)"
ParseReturned ==
    /\ pc = "parse"
    /\ pc' = "done"
    /\ result' = ParseMeasurements(combined_ret.data)
    /\ UNCHANGED << connected, device_id, op, min, linecnt, buf_out, combined_ret,
                    log, reads_done >>
    /\ UNCHANGED frameVars
    /\ UNCHANGED taskVars

NextParse == ParseReturned

SpecParse == InitParse /\ [][NextParse]_vars

\* the number of whole 12-byte records behind the 5 bytes of header
WholeRecords(n) == IF n <= 5 THEN 0 ELSE (n - 5) \div 12

\* record k (from 0) of the payload: time from its bytes [0:4], val from [8:12]
RecordAt(rawdata, k) ==
    [ time |-> Slice(rawdata, 5 + 12 * k, 9 + 12 * k),
      val |-> Slice(rawdata, 13 + 12 * k, 17 + 12 * k) ]

\* the records of the payload, the last one first
RecordsReversed(rawdata) ==
    [ j \in 1..WholeRecords(Len(rawdata)) |->
        RecordAt(rawdata, WholeRecords(Len(rawdata)) - j) ]

\* C12: a payload of n bytes decodes to floor((n-5)/12) records, record k
\* from bytes [5+12k, 5+12k+12), a short last record ignored without an
\* error, and the records are returned in reverse order.
C12_WholeRecordsReversed ==
    pc = "done" =>
        /\ result.kind = "list"
        /\ result.recs = RecordsReversed(combined_ret.data)

\* payloads that end with a whole record do decode so
WholeRecordsDecoded ==
    (pc = "done" /\ (Len(combined_ret.data) <= 5
                        \/ (Len(combined_ret.data) - 5) % 12 = 0)) =>
        C12_WholeRecordsReversed
TwoRecordsDecoded ==
    pc = "done" /\ Len(combined_ret.data) = 29 /\ Len(result.recs) = 2
        /\ result.recs[1] = RecordAt(combined_ret.data, 1)

(***************************************************************************)
(* The escaping of __send_raw_message and the two unescaping loops, on     *)
(* byte sequences of up to MaxSeq bytes: pending is the sequence, stream   *)
(* what the sender makes of it, ret and buf_out what the loop of           *)
(* __read_raw_message and the msg_for_crc loop make of that.               *)
(***************************************************************************)
MaxSeq == 3

CodecBytes == { FLAG, ESCAPE, ESC_FLAG, ESC_ESCAPE, XOR_MASK, IDLE_FIRST, IDLE_SECOND }

RECURSIVE SeqsUpTo(_, _)
SeqsUpTo(S, n) ==
    IF n = 0 THEN { <<>> }
    ELSE SeqsUpTo(S, n - 1)
            \cup { Append(q, b) : q \in SeqsUpTo(S, n - 1), b \in S }

InitCodec ==
    /\ connected = FALSE
    /\ device_id = Unset
    /\ pc = "idle"
    /\ op = ""
    /\ min = 0
    /\ linecnt = 0
    /\ buf_out = <<>>
    /\ combined_ret = NoResult
    /\ result = NoResult
    /\ log = <<>>
    /\ reads_done = 0
    /\ rpc = "escape"
    /\ reader = ReadStart
    /\ attempt = 0
    /\ max_iterations = 0
    /\ pending \in SeqsUpTo(CodecBytes, MaxSeq)
    /\ stream = <<>>
    /\ nreads = 0
    /\ ret = <<>>
    /\ fired = <<>>
    /\ TasksOff

\* the sender's loop over the bytes
Escapes ==
    /\ rpc = "escape"
    /\ rpc' = "unescape"
    /\ stream' = EscapeLoop(pending, 1)
    /\ UNCHANGED << reader, attempt, max_iterations, pending, nreads, ret, fired >>
    /\ UNCHANGED sessionVars
    /\ UNCHANGED taskVars

\* one read that fetches the escaped bytes, and the msg_for_crc loop on them
Unescapes ==
    /\ rpc = "unescape"
    /\ rpc' = "done"
    /\ reader' = ProcessRead(ReadStart, TransportHeader \o stream)
    /\ ret' = reader'.buf_out
    /\ buf_out' = MsgForCrc(stream, 1, FALSE, <<>>)
    /\ UNCHANGED << attempt, max_iterations, pending, stream, nreads, fired >>
    /\ UNCHANGED << connected, device_id, pc, op, min, linecnt, combined_ret, result,
                    log, reads_done >>
    /\ UNCHANGED taskVars

NextCodec ==
    \/ Escapes
    \/ Unescapes

SpecCodec == InitCodec /\ [][NextCodec]_vars

\* C13: a byte sequence escaped as the sender escapes it and then
\* unescaped by the rule of __read_raw_message, or by the rule of the
\* msg_for_crc loop, is the sequence again.
C13_EscapeRoundTrip == rpc = "done" => (ret = pending /\ buf_out = pending)

\* a sequence with both special bytes has made the round trip
C13_Witness ==
    /\ rpc = "done"
    /\ pending = << FLAG, ESCAPE, ESC_FLAG >>
    /\ stream = << ESCAPE, ESC_FLAG, ESCAPE, ESC_ESCAPE, ESC_FLAG >>
    /\ ret = pending


\* ---------------------------------------------------------------------------
\* Several asyncio tasks calling the data methods of one connected session.
\* A task is suspended only inside "await asyncio.sleep(...)": at the 0.2 s
\* before dev.write, and at the 0.3 s and each 0.07 s before dev.read.  The
\* code between two sleeps runs without interruption.

\* the line counts the device declares in this specification
TaskLineCounts == { 0, 1, FIRST_LINECNT }

\* a task sleeping before dev.write of a message of kind what
Sending(o, what, m, lc) == [at |-> "send", op |-> o, what |-> what, min |-> m, linecnt |-> lc]

\* a task sleeping inside __read_raw_message; what is the message its
\* method wrote before the call ("none" when it wrote nothing)
Collecting(o, what, m, lc) == [at |-> "read", op |-> o, what |-> what, min |-> m, linecnt |-> lc]

\* a variant of the keep-alive that goes on without the dummy read
NoDummyRead(t) ==
    IF t.what = "syn"
    THEN Sending(t.op, "cmd", t.min, t.linecnt)
    ELSE Collecting(t.op, t.what, t.min, t.linecnt)

\* where a task goes after a dev.write that returned a count above 0: every
\* send is followed by a call of __read_raw_message; after the first message
\* of a series "min -= 1" has run before the read
AfterWrite(t) ==
    IF t.what = "cmd" /\ t.op \in SeriesOps
    THEN Collecting(t.op, t.what, t.min - 1, t.linecnt)
    ELSE Collecting(t.op, t.what, t.min, t.linecnt)

\* where a series goes after a frame declaring lc: the loop test, "min -= 1",
\* the budget test and the test for the continuation request
AfterFrame(t, lc) ==
    IF ~LoopGoesOn(lc) \/ BudgetSpent(t.min - 1) THEN IdleTask
    ELSE IF AsksNext(lc) THEN Sending(t.op, "next", t.min - 1, lc)
    ELSE Collecting(t.op, "none", t.min - 1, lc)

\* where a task goes when its read has completed; lc is the line count of the
\* frame, or -1 for a result that ends the method (empty, or too short)
AfterRead(t, lc) ==
    IF t.what = "syn" THEN Sending(t.op, "cmd", t.min, t.linecnt)
    ELSE IF t.op \in SeriesOps /\ lc >= 0 THEN AfterFrame(t, lc)
    ELSE IdleTask

InitTasks ==
    /\ connected = TRUE
    /\ device_id = Bytes(ID_A)
    /\ pc = "idle"
    /\ op = ""
    /\ min = 0
    /\ linecnt = 0
    /\ buf_out = <<>>
    /\ combined_ret = NoResult
    /\ result = NoResult
    /\ log = <<>>
    /\ reads_done = 0
    /\ FrameOff
    /\ TasksOff

\* a task calls a data method: the guard, then __do_syn_online up to the sleep
\* before its dev.write
Invoke(i) ==
    /\ tasks[i].at = "idle"
    /\ connected
    /\ \E o \in DataOps :
        tasks' = [tasks EXCEPT ![i] = Sending(o, "syn", RETRY_BUDGET, FIRST_LINECNT)]
    /\ UNCHANGED outstanding
    /\ UNCHANGED << sessionVars, frameVars >>

\* the sleep of __send_raw_message ends: dev.write, and the code up to the
\* next sleep (a result of 0 ends the method)
TaskWrites(i) ==
    /\ tasks[i].at = "send"
    /\ \E wok \in BOOLEAN :
        /\ tasks' = [tasks EXCEPT ![i] = IF wok THEN AfterWrite(tasks[i]) ELSE IdleTask]
        /\ outstanding' = IF wok THEN outstanding + 1 ELSE outstanding
    /\ UNCHANGED << sessionVars, frameVars >>

\* the last sleep of a call of __read_raw_message ends: the dev.read that
\* completes the frame or spends the budget, and the code up to the next sleep
TaskCollects(i) ==
    /\ tasks[i].at = "read"
    /\ \E lc \in TaskLineCounts \cup { -1 } :
        tasks' = [tasks EXCEPT ![i] = AfterRead(tasks[i], lc)]
    /\ outstanding' = IF tasks[i].what = "none" THEN outstanding ELSE outstanding - 1
    /\ UNCHANGED << sessionVars, frameVars >>

NextTasks ==
    \E i \in Tasks :
        \/ Invoke(i)
        \/ TaskWrites(i)
        \/ TaskCollects(i)

SpecTasks == InitTasks /\ [][NextTasks]_vars


\* the tasks that are inside a data method
ActiveTasks == { i \in Tasks : tasks[i].at # "idle" }

\* the caller lets one data method end before it calls the next
Serialised == Cardinality(ActiveTasks) <= 1

\* C14 as stated: whatever the interleaving of the data methods, at most one
\* command has been written whose frame read has not completed.
C14_OneOutstanding == outstanding <= 1

\* C14: while the caller serialises the data methods, at most one command has
\* been written whose frame read has not completed, so no command is written
\* between a write and the completion of the read that collects its response.
C14_OneOutstandingWhenSerialised == Serialised => outstanding <= 1

\* a serial run that has collected the keep-alive's answer, the first frame of
\* a series, and waits for the answer to its continuation request
C14_Witness ==
    /\ tasks[1] = Collecting("get_today_measurements", "next", RETRY_BUDGET - 2, 1)
    /\ \A i \in Tasks \ { 1 } : tasks[i] = IdleTask
    /\ outstanding = 1


\* ---------------------------------------------------------------------------
\* __send_raw_message as a function of its message and of the device
\* identity: pending is msg as the caller built it, stream is the data handed
\* to dev.write.

\* the bytes an identity is made of here, and the identities
IdBytes == { 0, IDLE_FIRST, ESC_FLAG, ESCAPE, FLAG }
Identities == { << a, b >> : a \in IdBytes, b \in IdBytes }

\* what linecnt = tmpbuf[10] can be: one byte
ByteValues == 0..255

\* the messages sent with set_deviceid = True, and those sent with False
IdentityCommands ==
    { CmdGetData, CmdToday, CmdLastMonth } \cup { CmdNext(lc) : lc \in ByteValues }
PlainCommands == { CmdSynOnline } \cup { BasicMsg(sn) : sn \in SerialNumbers }

InitSend ==
    /\ connected = TRUE
    /\ device_id \in { Bytes(did) : did \in Identities }
    /\ pc = "idle"
    /\ op = ""
    /\ min = 0
    /\ linecnt = 0
    /\ buf_out = <<>>
    /\ combined_ret = NoResult
    /\ result = NoResult
    /\ log = <<>>
    /\ reads_done = 0
    /\ rpc = "send"
    /\ reader = ReadStart
    /\ attempt = 0
    /\ max_iterations = 0
    /\ pending \in IdentityCommands \cup PlainCommands
    /\ stream = <<>>
    /\ nreads = 0
    /\ ret = <<>>
    /\ fired = <<>>
    /\ TasksOff

\* the call up to dev.write(endpoint=0x02, data=msg, timeout=1000)
SendsMessage ==
    /\ rpc = "send"
    /\ rpc' = "written"
    /\ stream' = SendRawMessage(pending, pending \in IdentityCommands, device_id.val)
    /\ UNCHANGED << reader, attempt, max_iterations, pending, nreads, ret, fired >>
    /\ UNCHANGED sessionVars
    /\ UNCHANGED taskVars

NextSend == SendsMessage

SpecSend == InitSend /\ [][NextSend]_vars

\* the 1-based positions of msg that hold the flag byte
FlagPositions(msg) == { i \in 1..Len(msg) : msg[i] = FLAG }

\* C15: every frame handed to dev.write has the flag byte at its first and
\* at its last position and nowhere else.
C15_FlagOnlyAtEnds ==
    rpc = "written" => FlagPositions(stream) = { 1, Len(stream) }

\* the continuation request for a line count of 0x7e goes out with three flags
ThreeFlagsWritten ==
    /\ rpc = "written"
    /\ pending = CmdNext(FLAG)
    /\ device_id = Bytes(<< 0, IDLE_FIRST >>)
    /\ FlagPositions(stream) = { 1, 11, Len(stream) }

\* apart from the identity and the line count, the written frame has its
\* flags at the two ends only: in particular the checksum is escaped
FlagsElsewhereOnlyAtEnds ==
    (rpc = "written" /\ pending \in IdentityCommands)
        => FlagPositions(stream) \ { 8, 9, 11 } = { 1, Len(stream) }


\* the call left its loop on "if end_found: break" and returned
StoppedOnEndFlag == rpc = "returned" /\ reader.end_found

\* C16: when __read_raw_message stops on the end flag, what it returns begins
\* with the flag byte and ends with the flag byte: nothing received before
\* the first flag is in it, and its last byte is the second flag.
C16_FlagToFlag ==
    StoppedOnEndFlag => (ret[1] = FLAG /\ ret[Len(ret)] = FLAG)

\* a byte received before the start flag is returned in front of the frame
ByteBeforeStartReturned ==
    /\ StoppedOnEndFlag
    /\ stream = << IDLE_FIRST, FLAG, FLAG >>
    /\ ret = << IDLE_FIRST, FLAG, FLAG >>

\* an escape marker in front of the end flag: the flag ends the call and is
\* returned as 0x5e
EscapedEndFlagReturned ==
    /\ StoppedOnEndFlag
    /\ stream = << FLAG, ESCAPE, FLAG >>
    /\ ret = << FLAG, ESC_FLAG >>


\* what the call on the fetched bytes gives when one read delivers them all
\* behind the header h
InOneRead(h) == ReadRawMessage(<< h \o stream >>, max_iterations)

\* the call has ended as the call on one read behind the header h ends
SameAsOneRead(h, one) == ret = one.buf /\ reader.err = one.err

\* C17: however the bytes of the stream are split over the reads of a call,
\* and whatever the two header bytes of each read are, the call ends as the
\* call that gets the whole stream in one read.
C17_FragmentationIndependent ==
    (rpc \in { "returned", "raised" } /\ nreads >= 1) =>
        \A h \in Headers : SameAsOneRead(h, InOneRead(h))

\* the stream 7e 01 60 7e split between the 0x01 and the 0x60
SplitInsideArtifact ==
    /\ rpc = "returned"
    /\ nreads = 2
    /\ stream = << FLAG, IDLE_FIRST, IDLE_SECOND, FLAG >>
    /\ ret = stream
    /\ InOneRead(TransportHeader).buf = << FLAG, FLAG >>

\* a stream without 0x60 may be split anywhere, between an escape marker and
\* the byte it escapes too
SplitIndependentWithoutIdleSecond ==
    (\A i \in 1..Len(stream) : stream[i] # IDLE_SECOND) => C17_FragmentationIndependent

\* a call that read 7e 7d and then 5e 7e
SplitInsideEscape ==
    /\ rpc = "returned"
    /\ nreads = 2
    /\ reader.end_found
    /\ stream = << FLAG, ESCAPE, ESC_FLAG, FLAG >>
    /\ ret = << FLAG, FLAG, FLAG >>


\* C20: each time the idle-artifact branch is taken, buf_out is not empty and
\* the byte that "del buf_out[-1]" removes is the byte that was appended for
\* the 0x01 in front of the 0x60.
C20_ArtifactRemovesItsByte ==
    \A k \in 1..Len(fired) :
        /\ fired[k].size > 0
        /\ fired[k].removed = fired[k].appended

\* the branch taken on an empty buf_out: the 0x60 is the first payload byte
\* of a read whose header ends in 0x01
FiredOnEmpty ==
    /\ reader.err = "IndexError"
    /\ Len(fired) = 1
    /\ fired[1].p = 2
    /\ fired[1].size = 0

\* when the 0x01 is a payload byte of the same read, the byte removed is the
\* one appended for it, also when the 0x01 was escaped
C20_WithinOneRead ==
    \A k \in 1..Len(fired) :
        fired[k].p > 2 =>
            /\ fired[k].size > 0
            /\ fired[k].removed = fired[k].appended
            /\ fired[k].removed \in { IDLE_FIRST, Xor(IDLE_FIRST, XOR_MASK) }

\* 7e 7d 01 60: the escaped 0x01 was appended as 0x21 and is removed
EscapedArtifactFired ==
    /\ stream = << FLAG, ESCAPE, IDLE_FIRST, IDLE_SECOND >>
    /\ nreads = 1
    /\ Len(fired) = 1
    /\ fired[1].removed = Xor(IDLE_FIRST, XOR_MASK)
    /\ reader.buf_out = << FLAG >>


\* the read at place j of the log follows a continuation request that
\* carries the count declared by the frame read before it
AskedFor(j) ==
    /\ IsRead(log[j - 2])
    /\ IsWrite(log[j - 1])
    /\ log[j - 1].sub
    /\ SameCommand(log[j - 1].msg, CmdNext(Declared(log[j - 2])))
    /\ At(log[j - 1].msg, 10) = Declared(log[j - 2])

\* C18: the first pass of the loop reads without a request; every later
\* pass writes the continuation request with the count that the previous
\* frame declared at index 10 before it reads, whatever that count is.
C18_ContinuationCarriesCount ==
    /\ Len(log) >= 4 => IsRead(log[4])
    /\ \A j \in 5..Len(log) : IsRead(log[j]) => AskedFor(j)

\* a frame that declared 255 is followed by a read without a request
ReadWithoutRequest ==
    /\ Len(log) >= 5
    /\ IsRead(log[4]) /\ Len(log[4].msg) > 10 /\ Declared(log[4]) = FIRST_LINECNT
    /\ IsRead(log[5])

\* after a frame that declared another count than 255 the request is written
C18_ExceptFirstMarker ==
    \A j \in 5..Len(log) :
        (IsRead(log[j]) /\ ~(IsRead(log[j - 1]) /\ Declared(log[j - 1]) = FIRST_LINECNT))
            => AskedFor(j)


\* C19: whatever frames __read_raw_message returns, the call of
\* __do_combined_read_messages ends by returning 0 or the bytes it has
\* accumulated; no frame makes "linecnt = tmpbuf[10]" raise.
C19_CombinedAlwaysReturns ==
    pc = "done" => combined_ret.kind \in { "zero", "bytes" }

\* a frame of 1 to 10 bytes was read and the method was left by IndexError
ShortFrameRaised ==
    /\ pc = "done"
    /\ IsRead(LastEv)
    /\ Len(LastEv.msg) \in 1..10
    /\ combined_ret = Raise("IndexError")

\* frames of 11 bytes and more, and empty results, never raise
C19_LongFramesReturn ==
    (pc = "done" /\ IsRead(LastEv) /\ Len(LastEv.msg) \notin 1..10)
        => combined_ret.kind \in { "zero", "bytes" }

====
